---------------------------- MODULE Spec2Model ----------------------------
(***************************************************************************)
(* A model of mothi.tiling_projects.QuPathTilingProject: the per-image     *)
(* annotation index (img_annot_dict), the tile query (get_tile_annot),     *)
(* the mask rasterizer (get_tile_annot_mask), save_mask_annotations and    *)
(* merge_near_annotations.                                                 *)
(*                                                                         *)
(* Geometry.  Level-0 pixel space is a GridW x GridH grid of closed unit   *)
(* cells; cell <<x, y>> is the square [x, x+1] x [y, y+1].  A region (the  *)
(* roi of an annotation, a tile rectangle) is a set of cells and stands    *)
(* for the union of those closed squares.  To compute what shapely's       *)
(* intersection() returns, a region is expanded into the elements of the   *)
(* cell complex in doubled coordinates: <<odd, odd>> is an open face,      *)
(* <<odd, even>> and <<even, odd>> are open edges, <<even, even>> is a     *)
(* vertex.  The intersection of two closed regions is the intersection of  *)
(* their element sets, so an annotation that only touches a tile leaves    *)
(* edges and vertices but no face.                                         *)
(***************************************************************************)
EXTENDS Integers, Sequences, FiniteSets, TLC

\* ------------------------------------------------------------------ bounds
GridW == 4
GridH == 4
MaxAnnots == 2
MaxLevel == 1
MaxMutations == 2

Cells == (0 .. GridW - 1) \X (0 .. GridH - 1)

\* ---------------------------------------------------------------- helpers
Range(s) == {s[i] : i \in DOMAIN s}

Min(S) == CHOOSE m \in S : \A n \in S : m <= n

Max(S) == CHOOSE m \in S : \A n \in S : m >= n

\* The least cell of a non-empty set in row-major order.
FirstCell(S) ==
    LET y0 == Min({c[2] : c \in S})
        x0 == Min({c[1] : c \in {d \in S : d[2] = y0}})
    IN  <<x0, y0>>

\* ------------------------------------------------------- geometry (shapely)
\* The closed point set of a region, as elements of the cell complex.
Closure(cells) ==
    UNION {{<<2 * c[1] + 1 + dx, 2 * c[2] + 1 + dy>> : dx \in -1 .. 1, dy \in -1 .. 1}
            : c \in cells}

IsEdge(e) == (e[1] % 2) # (e[2] % 2)

IsVertex(e) == e[1] % 2 = 0 /\ e[2] % 2 = 0

\* The two end vertices of an open edge.
EdgeEnds(e) ==
    IF e[1] % 2 = 1 THEN {<<e[1] - 1, e[2]>>, <<e[1] + 1, e[2]>>}
                    ELSE {<<e[1], e[2] - 1>>, <<e[1], e[2] + 1>>}

EdgeAdjacent(c, d) ==
    \/ c[1] = d[1] /\ (c[2] - d[2] = 1 \/ d[2] - c[2] = 1)
    \/ c[2] = d[2] /\ (c[1] - d[1] = 1 \/ d[1] - c[1] = 1)

\* The cells reachable from `seen` inside `cells` across shared edges.
RECURSIVE Grow(_, _)
Grow(seen, cells) ==
    LET more == {c \in cells \ seen : \E d \in seen : EdgeAdjacent(c, d)}
    IN  IF more = {} THEN seen ELSE Grow(seen \cup more, cells)

\* The simple polygons of a region: its edge-connected components, as a
\* sequence (the order of a multi-part geometry's .geoms).
RECURSIVE Parts(_)
Parts(cells) ==
    IF cells = {} THEN <<>>
    ELSE LET comp == Grow({FirstCell(cells)}, cells)
         IN  <<comp>> \o Parts(cells \ comp)


\* The edges reachable from `seen` inside `lines` through shared end vertices.
RECURSIVE GrowLine(_, _)
GrowLine(seen, lines) ==
    LET more == {e \in lines \ seen : \E f \in seen : EdgeEnds(e) \cap EdgeEnds(f) # {}}
    IN  IF more = {} THEN seen ELSE GrowLine(seen \cup more, lines)

\* A geometry value: its type as shapely names it, its faces (cells) and its
\* lower-dimensional elements (edges and isolated vertices).
Geometry(type, cells, low) == [type |-> type, cells |-> cells, low |-> low]

\* Polygon(([x, y], [x + w, y], [x + w, y + h], [x, y + h])): the tile rectangle.
polygon_tile(location, size) ==
    {<<x, y>> : x \in location[1] .. location[1] + size[1] - 1,
                y \in location[2] .. location[2] + size[2] - 1}

\* A faulty intersection that hands back the whole polygon whenever it meets
\* the tile.
IntersectionUnclipped(poly, tile) ==
    IF Closure(poly) \cap Closure(tile) = {} THEN Geometry("Empty", {}, {})
    ELSE Geometry("Polygon", poly, {})

\* poly.intersection(tile): the common points of two closed regions.  Faces
\* common to both make the polygonal part; an edge or a vertex common to both
\* closures that bounds no common face is a line or a point of the result.
Intersection(poly, tile) ==
    LET faces == poly \cap tile
        both  == Closure(poly) \cap Closure(tile)
        low   == both \ Closure(faces)
        lines == {e \in low : IsEdge(e)}
        pts   == {v \in low : IsVertex(v) /\ \A e \in lines : v \notin EdgeEnds(e)}
        type  == IF both = {} THEN "Empty"
                 ELSE IF lines = {} /\ pts = {}
                      THEN (IF Len(Parts(faces)) = 1 THEN "Polygon" ELSE "MultiPolygon")
                 ELSE IF faces = {} /\ pts = {}
                      THEN (IF GrowLine({CHOOSE e \in lines : TRUE}, lines) = lines
                            THEN "LineString" ELSE "MultiLineString")
                 ELSE IF faces = {} /\ lines = {}
                      THEN (IF Cardinality(pts) = 1 THEN "Point" ELSE "MultiPoint")
                 ELSE "GeometryCollection"
    IN  Geometry(type, faces, lines \cup pts)

\* The bounding box of a region grown by half_dist/2 on every side, in doubled
\* coordinates (the extent STRtree compares).
Bounds(cells, half_dist) ==
    [x0 |-> 2 * Min({c[1] : c \in cells}) - half_dist,
     x1 |-> 2 * (Max({c[1] : c \in cells}) + 1) + half_dist,
     y0 |-> 2 * Min({c[2] : c \in cells}) - half_dist,
     y1 |-> 2 * (Max({c[2] : c \in cells}) + 1) + half_dist]

BoxesIntersect(a, b) ==
    a.x0 <= b.x1 /\ b.x0 <= a.x1 /\ a.y0 <= b.y1 /\ b.y0 <= a.y1

\* A faulty query that misses geometries whose extent only touches the query
\* extent.
TreeQueryStrict(tree, box) ==
    {i \in DOMAIN tree :
        LET a == Bounds(tree[i], 0)
        IN  a.x0 < box.x1 /\ box.x0 < a.x1 /\ a.y0 < box.y1 /\ box.y0 < a.y1}

\* STRtree.query: the positions of the indexed geometries whose extent
\* intersects the query extent.
TreeQuery(tree, box) ==
    {i \in DOMAIN tree : BoxesIntersect(Bounds(tree[i], 0), box)}

\* ------------------------------------------------------------ class catalog
None == "None"

\* The project's path classes as loaded; index 0 is the background class.
PathClasses == <<"bg", "a", "b">>

\* self._class_dict: local index -> class, by enumerate(self.path_classes).
ClassDict(path_classes) == [i \in 0 .. Len(path_classes) - 1 |-> path_classes[i + 1]]

\* self._inverse_class_dict: class id -> local index.
InverseClassDict(cd) ==
    [id \in {cd[i] : i \in DOMAIN cd} |-> CHOOSE i \in DOMAIN cd : cd[i] = id]

\* ----------------------------------------------------------- call outcomes
Ok(v) == [err |-> "none", val |-> v]

Raise(e) == [err |-> e, val |-> <<>>]

\* ----------------------------------------------------------- get_tile_annot
\* class_filter: None, or a list of class ids (names) and local indices (nums).
NoFilter == [given |-> FALSE, names |-> {}, nums |-> {}]

ListFilter(names, nums) == [given |-> TRUE, names |-> names, nums |-> nums]

\* `not class_filter`: None or an empty list.
NotFilter(class_filter) ==
    ~class_filter.given \/ (class_filter.names = {} /\ class_filter.nums = {})

\* The lookup self._inverse_class_dict[annot_class] is reached and has no key.
FilterRaises(annot_class, class_filter, inverse) ==
    /\ ~NotFilter(class_filter)
    /\ annot_class \notin class_filter.names
    /\ annot_class \notin DOMAIN inverse

\* A faulty filter_bool that matches the filter against class ids only and
\* ignores local indices.
filter_bool_ids_only(annot_class, class_filter, inverse) ==
    \/ NotFilter(class_filter)
    \/ annot_class \in class_filter.names

\* filter_bool = (not class_filter) or (annot_class in class_filter)
\*               or (self._inverse_class_dict[annot_class] in class_filter)
filter_bool(annot_class, class_filter, inverse) ==
    \/ NotFilter(class_filter)
    \/ annot_class \in class_filter.names
    \/ inverse[annot_class] \in class_filter.nums

\* What one non-empty intersection appends to tile_intersections: the Polygon
\* members of a MultiPolygon or GeometryCollection, else the intersection as
\* it is.
Appended(annot_class, intersection) ==
    IF intersection.type \in {"MultiPolygon", "GeometryCollection"}
    THEN LET geoms == Parts(intersection.cells)
         IN  [k \in DOMAIN geoms |->
                 [cls |-> annot_class, geom |-> Geometry("Polygon", geoms[k], {})]]
    ELSE <<[cls |-> annot_class, geom |-> intersection]>>

\* The loop body shared by both branches of get_tile_annot, run over the
\* candidates (roi, class) in order; the first exception ends the call.
RECURSIVE Clip(_, _, _, _)
Clip(cands, tile, class_filter, inverse) ==
    IF cands = <<>> THEN Ok(<<>>)
    ELSE LET poly         == Head(cands).roi
             annot_class  == Head(cands).cls
             intersection == Intersection(poly, tile)
             rest         == Clip(Tail(cands), tile, class_filter, inverse)
         IN  IF intersection.type = "Empty" THEN rest
             ELSE IF FilterRaises(annot_class, class_filter, inverse) THEN Raise("KeyError")
             ELSE IF rest.err # "none" THEN rest
             ELSE IF filter_bool(annot_class, class_filter, inverse)
                  THEN Ok(Appended(annot_class, intersection) \o rest.val)
             ELSE rest

\* The index of one image: the STRtree (the indexed rois, by position) and the
\* side table class_by_id (position -> class id).  np.array(img_ann_list)
\* .transpose()[0] on an empty list raises IndexError, so no index is built
\* from an empty list.
BuildIndex(img_ann_list) ==
    IF img_ann_list = <<>> THEN Raise("IndexError")
    ELSE Ok([tree    |-> [i \in DOMAIN img_ann_list |-> img_ann_list[i].roi],
             classes |-> [i \in DOMAIN img_ann_list |-> img_ann_list[i].cls]])

\* All orders in which a set of positions can be listed.
RECURSIVE Orders(_)
Orders(S) ==
    IF S = {} THEN {<<>>}
    ELSE UNION {{<<i>> \o o : o \in Orders(S \ {i})} : i \in S}

\* The branch `img_id in self.img_annot_dict`: the candidates are what the tree
\* returns for the tile, taken in the order near_polys lists them.
CachedTileAnnot(index, near_polys, tile, class_filter, inverse) ==
    Clip([k \in DOMAIN near_polys |->
            [roi |-> index.tree[near_polys[k]], cls |-> index.classes[near_polys[k]]]],
         tile, class_filter, inverse)

\* The annotations with a class, in collection order (the `continue` of the
\* else branch): img_ann_list.
Classified(hier_data) == SelectSeq(hier_data, LAMBDA annot : annot.cls # None)

\* The else branch: a scan over every annotation of the image.
ScanTileAnnot(hier_data, tile, class_filter, inverse) ==
    Clip(Classified(hier_data), tile, class_filter, inverse)

\* A faulty store that keeps the new entry only.
PutAlone(d, k, v) == [j \in {k} |-> v]

\* d with d[k] set to v, k added to its domain when new.
Put(d, k, v) == [j \in DOMAIN d \cup {k} |-> IF j = k THEN v ELSE d[j]]

\* The outcomes of get_tile_annot: the returned list or the exception, and
\* img_annot_dict after the call.
TileAnnotOutcomes(dict, hier_data, img_id, location, size, class_filter, inverse) ==
    LET tile == polygon_tile(location, size)
    IN  IF img_id \in DOMAIN dict
        THEN {[ret  |-> CachedTileAnnot(dict[img_id], near_polys, tile, class_filter, inverse),
               dict |-> dict]
              : near_polys \in Orders(TreeQuery(dict[img_id].tree, Bounds(tile, 0)))}
        ELSE LET scan  == ScanTileAnnot(hier_data, tile, class_filter, inverse)
                 built == BuildIndex(Classified(hier_data))
             IN  IF scan.err # "none" THEN {[ret |-> scan, dict |-> dict]}
                 ELSE IF built.err # "none" THEN {[ret |-> built, dict |-> dict]}
                 ELSE {[ret |-> scan, dict |-> Put(dict, img_id, built.val)]}

\* ---------------------------------------------------- update_img_annot_dict
\* The outcome of update_img_annot_dict: annot.path_class.id is read of every
\* annotation, so one without a class raises AttributeError; then the index
\* is built over all annotations.
UpdateOutcome(dict, hier_data, img_id) ==
    IF \E i \in DOMAIN hier_data : hier_data[i].cls = None
    THEN [ret |-> Raise("AttributeError"), dict |-> dict]
    ELSE LET built == BuildIndex(hier_data)
         IN  IF built.err # "none" THEN [ret |-> built, dict |-> dict]
             ELSE [ret |-> Ok(<<>>), dict |-> Put(dict, img_id, built.val)]

\* ------------------------------------------------------ get_tile_annot_mask
\* The cells a simple polygon encloses without covering: its holes.
Holes(cells) ==
    LET xs      == {c[1] : c \in cells}
        ys      == {c[2] : c \in cells}
        frame   == ((Min(xs) - 1) .. (Max(xs) + 1)) \X ((Min(ys) - 1) .. (Max(ys) + 1))
        outside == Grow({<<Min(xs) - 1, Min(ys) - 1>>}, frame \ cells)
    IN  (frame \ cells) \ outside

\* Polygon(tup[1].exterior).area
ExteriorArea(geom) == Cardinality(geom.cells \cup Holes(geom.cells))

\* sorted(tile_intersections, key = exterior area, reverse = True): a stable
\* sort, fragments of equal area keep the order they came in.
RECURSIVE sorted_intersections(_)
sorted_intersections(frags) ==
    IF frags = <<>> THEN <<>>
    ELSE LET n     == Len(frags)
             last  == frags[n]
             front == sorted_intersections(SubSeq(frags, 1, n - 1))
             keep  == Cardinality({i \in DOMAIN front :
                                     ExteriorArea(front[i].geom) >= ExteriorArea(last.geom)})
         IN  SubSeq(front, 1, keep) \o <<last>> \o SubSeq(front, keep + 1, Len(front))

\* A level-0 coordinate, translated by -origin and scaled by 1/factor, rounded
\* to the nearest integer, a half to the even neighbour.
RoundCoord(v, origin, factor) ==
    LET t == v - origin
        q == t \div factor
        r == t % factor
    IN  IF 2 * r < factor THEN q
        ELSE IF 2 * r > factor THEN q + 1
        ELSE IF q % 2 = 0 THEN q ELSE q + 1

\* cv2.fillPoly of a ring with integer vertices: every pixel inside the ring
\* or on it.  The ring is the outline of `cells` after translate, scale and
\* _round_polygon, so the pixels are those of the mapped cells.
FillPixels(cells, location, factor, width, height) ==
    {p \in (0 .. width - 1) \X (0 .. height - 1) :
        \E c \in cells :
            /\ RoundCoord(c[1], location[1], factor) <= p[1]
            /\ p[1] <= RoundCoord(c[1] + 1, location[1], factor)
            /\ RoundCoord(c[2], location[2], factor) <= p[2]
            /\ p[2] <= RoundCoord(c[2] + 1, location[2], factor)}

\* cv2.fillPoly(plane, [exteriors], colour); cv2.fillPoly(plane, interiors, 0)
FillPoly(plane, geom, colour, location, factor, width, height) ==
    LET ext == FillPixels(geom.cells \cup Holes(geom.cells), location, factor, width, height)
        int == FillPixels(Holes(geom.cells), location, factor, width, height)
    IN  [p \in DOMAIN plane |-> IF p \in int THEN 0 ELSE IF p \in ext THEN colour ELSE plane[p]]

\* np.zeros((height, width))
Zeros(width, height) == [p \in (0 .. width - 1) \X (0 .. height - 1) |-> 0]

\* annot_mask[class_num] of a volume with n planes: Python counts a negative
\* index from the end.  0 when there is no such plane.
PlaneIndex(class_num, n) ==
    IF 0 <= class_num /\ class_num < n THEN class_num + 1
    ELSE IF class_num < 0 /\ -class_num <= n THEN n + class_num + 1
    ELSE 0

\* The painting loop over tile_intersections, in order.
RECURSIVE Paint(_, _, _, _, _, _, _, _)
Paint(planes, frags, multilabel, inverse, location, factor, width, height) ==
    IF frags = <<>> THEN Ok(planes)
    ELSE LET inter_class == Head(frags).cls
             geom        == Head(frags).geom
         IN  IF inter_class \notin DOMAIN inverse THEN Raise("KeyError")
             ELSE IF geom.type # "Polygon" THEN Raise("AttributeError")
             ELSE LET class_num == IF multilabel THEN inverse[inter_class] - 1
                                   ELSE inverse[inter_class]
                      k == IF multilabel THEN PlaneIndex(class_num, Len(planes)) ELSE 1
                  IN  IF k = 0 THEN Raise("IndexError")
                      ELSE Paint([planes EXCEPT ![k] =
                                     FillPoly(planes[k], geom, IF multilabel THEN 1 ELSE class_num,
                                              location, factor, width, height)],
                                 Tail(frags), multilabel, inverse, location, factor,
                                 width, height)

\* get_tile_annot_mask after its tile query: the mask, or the exception.
Rasterize(tile_intersections, multilabel, path_classes_, inverse, location, factor, size) ==
    LET width  == size[1]
        height == size[2]
    IN  IF multilabel
        THEN Paint([k \in 1 .. Len(path_classes_) - 1 |-> Zeros(width, height)],
                   tile_intersections, TRUE, inverse, location, factor, width, height)
        ELSE IF \E i \in DOMAIN tile_intersections : tile_intersections[i].geom.type # "Polygon"
             THEN Raise("AttributeError")
        ELSE Paint(<<Zeros(width, height)>>, sorted_intersections(tile_intersections),
                   FALSE, inverse, location, factor, width, height)

\* 2 ** downsample_level
RECURSIVE Pow2(_)
Pow2(n) == IF n = 0 THEN 1 ELSE 2 * Pow2(n - 1)

\* ---------------------------------------------------- save_mask_annotations
\* The region a set of mask pixels outlines: the unit squares with all four
\* corner pixels in the set (the inverse of FillPixels).
PixelCells(pixels) ==
    {c \in pixels : /\ <<c[1] + 1, c[2]>> \in pixels
                    /\ <<c[1], c[2] + 1>> \in pixels
                    /\ <<c[1] + 1, c[2] + 1>> \in pixels}

\* shapely.affinity.scale about the origin by an integer factor.
ScaleUp(cells, factor) ==
    {<<factor * c[1] + i, factor * c[2] + j>> : c \in cells, i \in 0 .. factor - 1,
                                                  j \in 0 .. factor - 1}

\* shapely.affinity.translate(annot_poly, location[0], location[1])
Translate(cells, location) == {<<c[1] + location[1], c[2] + location[2]>> : c \in cells}

\* The polygons of one class of a mask: the connected regions of its pixels,
\* those below min_polygon_area dropped, scaled back to level 0.
ClassPolys(pixels, class_num, factor, min_polygon_area) ==
    LET regions == Parts(PixelCells(pixels))
        kept    == SelectSeq(regions, LAMBDA r :
                       Cardinality(r \cup Holes(r)) >= min_polygon_area)
    IN  [k \in DOMAIN kept |-> [roi |-> ScaleUp(kept[k], factor), num |-> class_num]]

\* label_img_to_polys: (polygon, local class index) for every connected region
\* of every class; plane k of a multilabel mask is local index k.
RECURSIVE label_img_to_polys(_, _, _, _, _)
label_img_to_polys(planes, class_num, factor, min_polygon_area, multilabel) ==
    IF multilabel
    THEN IF class_num > Len(planes) THEN <<>>
         ELSE ClassPolys({p \in DOMAIN planes[class_num] : planes[class_num][p] # 0},
                         class_num, factor, min_polygon_area)
              \o label_img_to_polys(planes, class_num + 1, factor, min_polygon_area, multilabel)
    ELSE IF class_num > Max({planes[1][p] : p \in DOMAIN planes[1]}) THEN <<>>
         ELSE ClassPolys({p \in DOMAIN planes[1] : planes[1][p] = class_num},
                         class_num, factor, min_polygon_area)
              \o label_img_to_polys(planes, class_num + 1, factor, min_polygon_area, multilabel)

\* The loop of save_mask_annotations: add_annotation appends to the collection;
\* self._class_dict[annot_class] of an index outside the catalog raises, the
\* annotations added before it stay.
RECURSIVE AddPolys(_, _, _, _)
AddPolys(hier_data, poly_annot_list, location, cd) ==
    IF poly_annot_list = <<>> THEN [ret |-> Ok(<<>>), annots |-> hier_data]
    ELSE LET annot_class == Head(poly_annot_list).num
             poly_to_add == Translate(Head(poly_annot_list).roi, location)
         IN  IF annot_class \notin DOMAIN cd
             THEN [ret |-> Raise("KeyError"), annots |-> hier_data]
             ELSE AddPolys(Append(hier_data, [roi |-> poly_to_add, cls |-> cd[annot_class]]),
                           Tail(poly_annot_list), location, cd)

\* --------------------------------------------------- merge_near_annotations
\* The squared distance between two regions, in cells.
Gap(a, b) == IF a > b + 1 THEN a - b - 1 ELSE IF b > a + 1 THEN b - a - 1 ELSE 0

Dist2(A, B) ==
    Min({Gap(c[1], d[1]) * Gap(c[1], d[1]) + Gap(c[2], d[2]) * Gap(c[2], d[2])
          : c \in A, d \in B})

\* near_poly.buffer(max_dist).intersects(annot_poly.buffer(max_dist)), with
\* max_dist counted in half cells: the regions are at most 2 * max_dist apart.
BuffersIntersect(A, B, max_dist) == Dist2(A, B) <= max_dist * max_dist

\* Positions in ascending order.
RECURSIVE Ascending(_)
Ascending(S) == IF S = {} THEN <<>> ELSE <<Min(S)>> \o Ascending(S \ {Min(S)})

\* A faulty inner loop without the test annot_poly_class !=
\* near_poly_annotation_class: it absorbs neighbours of any class.
RECURSIVE NearLoopAnyClass(_, _, _, _, _, _, _)
NearLoopAnyClass(st, near_polys, frontier, index, annot_poly_class, index_, max_dist) ==
    IF near_polys = <<>> THEN st
    ELSE LET near_poly_index == Head(near_polys)
             skip == \/ near_poly_index \in Range(st.already_merged)
                     \/ index = near_poly_index
             intersects == BuffersIntersect(index_.tree[near_poly_index],
                                            index_.tree[frontier], max_dist)
             st2 == IF ~skip /\ intersects
                    THEN [to_merge       |-> Append(st.to_merge, near_poly_index),
                          nested         |-> Append(st.nested, near_poly_index),
                          already_merged |-> Append(st.already_merged, near_poly_index)]
                    ELSE st
         IN  NearLoopAnyClass(st2, Tail(near_polys), frontier, index, annot_poly_class,
                              index_, max_dist)

\* A faulty inner loop without the test index == near_poly_index: the seed,
\* which the tree query returns, is matched against itself.
RECURSIVE NearLoopSelf(_, _, _, _, _, _, _)
NearLoopSelf(st, near_polys, frontier, index, annot_poly_class, index_, max_dist) ==
    IF near_polys = <<>> THEN st
    ELSE LET near_poly_index == Head(near_polys)
             skip == \/ near_poly_index \in Range(st.already_merged)
                     \/ annot_poly_class # index_.classes[near_poly_index]
             intersects == BuffersIntersect(index_.tree[near_poly_index],
                                            index_.tree[frontier], max_dist)
             st2 == IF ~skip /\ intersects
                    THEN [to_merge       |-> Append(st.to_merge, near_poly_index),
                          nested         |-> Append(st.nested, near_poly_index),
                          already_merged |-> Append(st.already_merged, near_poly_index)]
                    ELSE st
         IN  NearLoopSelf(st2, Tail(near_polys), frontier, index, annot_poly_class,
                          index_, max_dist)

\* The inner `while len(near_polys) > 0` loop for one frontier geometry:
\* st = [to_merge, nested, already_merged] after it.
RECURSIVE NearLoop(_, _, _, _, _, _, _)
NearLoop(st, near_polys, frontier, index, annot_poly_class, index_, max_dist) ==
    IF near_polys = <<>> THEN st
    ELSE LET near_poly_index == Head(near_polys)
             skip == \/ near_poly_index \in Range(st.already_merged)
                     \/ index = near_poly_index
                     \/ annot_poly_class # index_.classes[near_poly_index]
             intersects == BuffersIntersect(index_.tree[near_poly_index],
                                            index_.tree[frontier], max_dist)
             st2 == IF ~skip /\ intersects
                    THEN [to_merge       |-> Append(st.to_merge, near_poly_index),
                          nested         |-> Append(st.nested, near_poly_index),
                          already_merged |-> Append(st.already_merged, near_poly_index)]
                    ELSE st
         IN  NearLoop(st2, Tail(near_polys), frontier, index, annot_poly_class, index_,
                      max_dist)

\* A faulty frontier loop that queries around the seed only and never around
\* the neighbours it absorbed.
NestedLoopSeedOnly(st, index, annot_poly_class, index_, max_dist) ==
    IF st.nested = <<>> THEN st
    ELSE LET frontier   == Head(st.nested)
             near_polys == Ascending(TreeQuery(index_.tree,
                                               Bounds(index_.tree[frontier], max_dist)))
             st2        == NearLoop([st EXCEPT !.nested = <<>>], near_polys, frontier,
                                    index, annot_poly_class, index_, max_dist)
         IN  [st2 EXCEPT !.nested = <<>>]

\* The `while len(nested_annotations) > 0` loop: pop the frontier, query the
\* tree with its buffered geometry, absorb.
RECURSIVE NestedLoop(_, _, _, _, _)
NestedLoop(st, index, annot_poly_class, index_, max_dist) ==
    IF st.nested = <<>> THEN st
    ELSE LET frontier   == Head(st.nested)
             near_polys == Ascending(TreeQuery(index_.tree,
                                               Bounds(index_.tree[frontier], max_dist)))
         IN  NestedLoop(NearLoop([st EXCEPT !.nested = Tail(st.nested)], near_polys,
                                 frontier, index, annot_poly_class, index_, max_dist),
                        index, annot_poly_class, index_, max_dist)

\* A faulty search that looks around the seed only.
AbsorbSeedOnly(index, annot_poly_class, index_, already_merged, max_dist) ==
    LET near_polys == Ascending(TreeQuery(index_.tree, Bounds(index_.tree[index], max_dist)))
    IN  NearLoop([to_merge |-> <<index>>, nested |-> <<>>,
                  already_merged |-> already_merged], near_polys, index, index,
                 annot_poly_class, index_, max_dist)

\* The members found for the seed at `index` (the seed first) and
\* already_merged after the search.
Absorb(index, annot_poly_class, index_, already_merged, max_dist) ==
    NestedLoop([to_merge |-> <<index>>, nested |-> <<index>>,
                already_merged |-> already_merged], index, annot_poly_class, index_,
               max_dist)

\* The whole `for index, annot in enumerate(annotations)` loop from position
\* `index` on: the member lists of the seeds that merge, in order.
RECURSIVE MergeLoop(_, _, _, _, _)
MergeLoop(index, items, index_, already_merged, max_dist) ==
    IF index > Len(items) THEN <<>>
    ELSE IF index \in Range(already_merged)
         THEN MergeLoop(index + 1, items, index_, already_merged, max_dist)
    ELSE LET st == Absorb(index, items[index].cls, index_, already_merged, max_dist)
         IN  (IF Len(st.to_merge) > 1 THEN <<st.to_merge>> ELSE <<>>)
               \o MergeLoop(index + 1, items, index_, st.already_merged, max_dist)

\* unary_union(annotations_to_merge).buffer(-max_dist): the members joined.
\* The closing also fills the gaps between members narrower than the buffer;
\* a region of whole cells keeps the members' cells only.
merged_annot(to_merge, tree) == UNION {tree[i] : i \in Range(to_merge)}

\* The collection while a merge runs: the enumerated annotations not yet
\* discarded, then the merged annotations added so far.
Remaining(items, discarded) ==
    LET keep == Ascending(DOMAIN items \ discarded)
    IN  [k \in DOMAIN keep |-> items[keep[k]]]

\* -------------------------------------------------------------------- state
VARIABLES
    path_classes,        \* self.path_classes
    class_dict,          \* self._class_dict
    inverse_class_dict,  \* self._inverse_class_dict
    annotations,         \* image id -> slide.hierarchy.annotations, in order
    img_annot_dict,      \* self.img_annot_dict
    pc,                  \* "idle", or "returned" once a call has ended
    call,                \* the call that ran last and its arguments
    ret,                 \* what that call returned or raised
    merge_frame,         \* the locals of a running merge_near_annotations
    last_merge,          \* the last merge that returned: image, max_dist, result
    mutations            \* the number of save and merge calls made so far

vars == <<path_classes, class_dict, inverse_class_dict, annotations,
          img_annot_dict, pc, call, ret, merge_frame, last_merge, mutations>>

catalog == <<path_classes, class_dict, inverse_class_dict>>

Images == {1, 2}

\* The rois annotations are drawn from.
Bar    == {<<0, 3>>, <<1, 3>>, <<2, 3>>}
UShape == {<<0, 0>>, <<0, 1>>, <<0, 2>>, <<1, 2>>, <<2, 2>>, <<2, 1>>, <<2, 0>>}
Rois   == {{<<0, 0>>}, Bar, UShape}

\* path_class of an annotation: a class of the catalog, or None.
AnnotClasses == Range(PathClasses) \cup {None}

AnnotPool == [roi : Rois, cls : AnnotClasses]

SeqsUpTo(S, n) == UNION {[1 .. k -> S] : k \in 0 .. n}

Locations == {<<0, 0>>, <<1, 0>>}
Sizes     == {<<1, 1>>, <<3, 1>>, <<4, 4>>}
Filters   == {NoFilter, ListFilter({}, {}), ListFilter({"a"}, {}), ListFilter({}, {1}),
              ListFilter({}, {0})}

MaskSizes   == {<<2, 2>>, <<3, 1>>}
MaskFilters == {NoFilter, ListFilter({"a"}, {})}

NoFrame == [img_id |-> 0]
NoMerge == [img_id |-> 0]
NoCall  == [op |-> "none"]

\* The state after __init__ on a project whose first image holds `first`.
Loaded(first) ==
    /\ path_classes = PathClasses
    /\ class_dict = ClassDict(PathClasses)
    /\ inverse_class_dict = InverseClassDict(ClassDict(PathClasses))
    /\ annotations = [i \in Images |-> IF i = 1 THEN first ELSE <<>>]
    /\ img_annot_dict = <<>>
    /\ pc = "idle"
    /\ call = NoCall
    /\ ret = Ok(<<>>)
    /\ merge_frame = NoFrame
    /\ last_merge = NoMerge
    /\ mutations = 0

Init == \E first \in SeqsUpTo(AnnotPool, MaxAnnots) : Loaded(first)

get_tile_annot(img_id, location, size, class_filter) ==
    /\ pc = "idle"
    /\ \E o \in TileAnnotOutcomes(img_annot_dict, annotations[img_id], img_id,
                                  location, size, class_filter, inverse_class_dict) :
          /\ ret' = o.ret
          /\ img_annot_dict' = o.dict
    /\ call' = [op |-> "get_tile_annot", img_id |-> img_id, location |-> location,
                size |-> size, class_filter |-> class_filter,
                cached |-> img_id \in DOMAIN img_annot_dict]
    /\ pc' = "returned"
    /\ UNCHANGED <<catalog, annotations, merge_frame, last_merge, mutations>>

update_img_annot_dict(img_id) ==
    /\ pc = "idle"
    /\ LET o == UpdateOutcome(img_annot_dict, annotations[img_id], img_id)
       IN  /\ ret' = o.ret
           /\ img_annot_dict' = o.dict
    /\ call' = [op |-> "update_img_annot_dict", img_id |-> img_id]
    /\ pc' = "returned"
    /\ UNCHANGED <<catalog, annotations, merge_frame, last_merge, mutations>>

get_tile_annot_mask(img_id, location, size, downsample_level, multilabel, class_filter) ==
    /\ pc = "idle"
    /\ LET downsample_factor == Pow2(downsample_level)
           level_0_size == <<size[1] * downsample_factor, size[2] * downsample_factor>>
       IN  \E o \in TileAnnotOutcomes(img_annot_dict, annotations[img_id], img_id,
                                      location, level_0_size, class_filter,
                                      inverse_class_dict) :
              /\ ret' = IF o.ret.err # "none" THEN o.ret
                        ELSE Rasterize(o.ret.val, multilabel, path_classes,
                                       inverse_class_dict, location, downsample_factor, size)
              /\ img_annot_dict' = o.dict
              /\ call' = [op |-> "get_tile_annot_mask", img_id |-> img_id,
                          location |-> location, size |-> size,
                          downsample_level |-> downsample_level,
                          multilabel |-> multilabel, class_filter |-> class_filter,
                          cached |-> img_id \in DOMAIN img_annot_dict,
                          tile_intersections |-> o.ret.val]
    /\ pc' = "returned"
    /\ UNCHANGED <<catalog, annotations, merge_frame, last_merge, mutations>>

save_mask_annotations(img_id, annot_mask, location, downsample_level, min_polygon_area) ==
    /\ pc = "idle"
    /\ mutations < MaxMutations
    /\ mutations' = mutations + 1
    /\ LET poly_annot_list == label_img_to_polys(annot_mask.planes, 1, Pow2(downsample_level),
                                                 min_polygon_area, annot_mask.multilabel)
           o == AddPolys(annotations[img_id], poly_annot_list, location, class_dict)
       IN  /\ annotations' = [annotations EXCEPT ![img_id] = o.annots]
           /\ ret' = o.ret
    /\ call' = [op |-> "save_mask_annotations", img_id |-> img_id,
                before |-> annotations[img_id]]
    /\ pc' = "returned"
    /\ UNCHANGED <<catalog, img_annot_dict, merge_frame, last_merge>>

\* merge_near_annotations up to its loop: the index is rebuilt, the collection
\* is enumerated.
merge_near_annotations(img_id, max_dist) ==
    /\ pc = "idle"
    /\ mutations < MaxMutations
    /\ mutations' = mutations + 1
    /\ LET o == UpdateOutcome(img_annot_dict, annotations[img_id], img_id)
       IN  /\ img_annot_dict' = o.dict
           /\ IF o.ret.err # "none"
              THEN /\ pc' = "returned"
                   /\ ret' = o.ret
                   /\ merge_frame' = NoFrame
              ELSE /\ pc' = "merge"
                   /\ ret' = ret
                   /\ merge_frame' = [img_id |-> img_id, max_dist |-> max_dist,
                                      items |-> annotations[img_id], index |-> 1,
                                      already_merged |-> <<>>, discarded |-> {},
                                      added |-> <<>>, seeds |-> <<>>]
    /\ call' = [op |-> "merge_near_annotations", img_id |-> img_id, max_dist |-> max_dist,
                before |-> annotations[img_id], prev |-> last_merge]
    /\ UNCHANGED <<catalog, annotations, last_merge>>

\* One iteration of `for index, annot in enumerate(annotations)`; after the
\* last one the call returns.
merge_step ==
    /\ pc = "merge"
    /\ LET f      == merge_frame
           index  == f.index
           annot  == f.items[index]
           index_ == img_annot_dict[f.img_id]
           st     == Absorb(index, annot.cls, index_, f.already_merged, f.max_dist)
           merges == Len(st.to_merge) > 1
           raises == merges /\ annot.cls \notin DOMAIN inverse_class_dict
           g      == IF index \in Range(f.already_merged)
                     THEN [f EXCEPT !.discarded = @ \cup {index}, !.index = index + 1]
                     ELSE IF raises
                     THEN [f EXCEPT !.already_merged = st.already_merged]
                     ELSE IF merges
                     THEN [f EXCEPT !.already_merged = st.already_merged,
                                    !.added = Append(@,
                                        [roi |-> merged_annot(st.to_merge, index_.tree),
                                         cls |-> class_dict[inverse_class_dict[annot.cls]]]),
                                    !.discarded = @ \cup {index},
                                    !.seeds = Append(@, st.to_merge),
                                    !.index = index + 1]
                     ELSE [f EXCEPT !.index = index + 1]
           done   == g.index > Len(f.items)
           failed == index \notin Range(f.already_merged) /\ raises
       IN  /\ annotations' = [annotations EXCEPT
                                 ![f.img_id] = Remaining(f.items, g.discarded) \o g.added]
           /\ merge_frame' = IF done \/ failed THEN NoFrame ELSE g
           /\ pc' = IF done \/ failed THEN "returned" ELSE "merge"
           /\ ret' = IF failed THEN Raise("KeyError")
                     ELSE IF done THEN Ok([already_merged |-> g.already_merged,
                                           seeds |-> g.seeds])
                     ELSE ret
           /\ last_merge' = IF done /\ ~failed
                            THEN [img_id |-> f.img_id, max_dist |-> f.max_dist,
                                  result |-> annotations'[f.img_id]]
                            ELSE last_merge
    /\ UNCHANGED <<catalog, img_annot_dict, call, mutations>>

\* The caller takes the result; the project is ready for the next call.
Return ==
    /\ pc = "returned"
    /\ pc' = "idle"
    /\ call' = NoCall
    /\ ret' = Ok(<<>>)
    /\ UNCHANGED <<catalog, annotations, img_annot_dict, merge_frame, last_merge,
                   mutations>>

\* np.full((height, width), value)
Full(width, height, value) == [p \in (0 .. width - 1) \X (0 .. height - 1) |-> value]

\* The masks saved: one region of local class 1; a two-plane volume with one
\* region on the plane of local class 2.
SaveMasks == {[multilabel |-> FALSE, planes |-> <<Full(2, 2, 1)>>],
              [multilabel |-> TRUE, planes |-> <<Full(2, 2, 0), Full(2, 2, 1)>>]}

MinAreas == {0, 2}

\* max_dist, in half cells: 1.5 and 2 cells.  On this grid no two regions are
\* exactly 2 * max_dist apart, so whether two buffers intersect never rests on
\* how buffer() approximates a quarter circle.
MaxDists == {3, 4}

\* The calls on the image that holds the annotations, and on the other image
\* (which holds none) one query of each kind.
Query ==
    \/ \E location \in Locations, size \in Sizes, class_filter \in Filters :
          get_tile_annot(1, location, size, class_filter)
    \/ \E img_id \in Images : update_img_annot_dict(img_id)
    \/ \E location \in Locations, size \in MaskSizes, downsample_level \in 0 .. MaxLevel,
          multilabel \in BOOLEAN, class_filter \in MaskFilters :
          get_tile_annot_mask(1, location, size, downsample_level, multilabel, class_filter)
    \/ \E img_id \in Images \ {1} :
          get_tile_annot(img_id, <<0, 0>>, <<GridW, GridH>>, NoFilter)
    \/ \E img_id \in Images \ {1}, multilabel \in BOOLEAN :
          get_tile_annot_mask(img_id, <<0, 0>>, <<2, 2>>, 0, multilabel, NoFilter)

Mutate ==
    \/ \E img_id \in Images, annot_mask \in SaveMasks, location \in Locations,
          min_polygon_area \in MinAreas :
          save_mask_annotations(img_id, annot_mask, location, 0, min_polygon_area)
    \/ \E img_id \in Images, max_dist \in MaxDists : merge_near_annotations(img_id, max_dist)
    \/ merge_step

\* The same calls on the whole image, unfiltered.
QueryWhole ==
    \/ \E img_id \in Images : get_tile_annot(img_id, <<0, 0>>, <<GridW, GridH>>, NoFilter)
    \/ \E img_id \in Images : update_img_annot_dict(img_id)
    \/ \E img_id \in Images, multilabel \in BOOLEAN :
          get_tile_annot_mask(img_id, <<0, 0>>, <<GridW, GridH>>, 0, multilabel, NoFilter)

Next == Query \/ Return

Spec == Init /\ [][Next]_vars

\* Tile queries alone, with and without an index built before.
NextFilter ==
    \/ \E location \in Locations, size \in Sizes, class_filter \in Filters :
          get_tile_annot(1, location, size, class_filter)
    \/ update_img_annot_dict(1)
    \/ Return

FilterPool == [roi : Rois, cls : {"a", "b", None}]

InitFilter == \E first \in SeqsUpTo(FilterPool, MaxAnnots) : Loaded(first)

SpecFilter == InitFilter /\ [][NextFilter]_vars

\* Rasterization of nested and coinciding annotations: a solid block, a ring
\* with a hole of four cells inside it, and the core the ring leaves open.
Block == (0 .. 4) \X (0 .. 4)
Core  == (1 .. 2) \X (1 .. 2)
Ring  == ((0 .. 3) \X (0 .. 3)) \ Core

MaskPool == [roi : {Block, Ring, Core}, cls : Range(PathClasses)]

InitMask == \E first \in SeqsUpTo(MaskPool, MaxAnnots) : Loaded(first)

NextMask ==
    \/ \E downsample_level \in 0 .. MaxLevel, multilabel \in BOOLEAN :
          get_tile_annot_mask(1, <<0, 0>>, <<5, 5>>, downsample_level, multilabel, NoFilter)
    \/ update_img_annot_dict(1)
    \/ Return

SpecMask == InitMask /\ [][NextMask]_vars

\* Queries of a project both of whose images hold annotations.
BothPool == [roi : {{<<0, 0>>}}, cls : {"a", None}]

LoadedBoth(first, second) ==
    /\ path_classes = PathClasses
    /\ class_dict = ClassDict(PathClasses)
    /\ inverse_class_dict = InverseClassDict(ClassDict(PathClasses))
    /\ annotations = [i \in Images |-> IF i = 1 THEN first ELSE second]
    /\ img_annot_dict = <<>>
    /\ pc = "idle"
    /\ call = NoCall
    /\ ret = Ok(<<>>)
    /\ merge_frame = NoFrame
    /\ last_merge = NoMerge
    /\ mutations = 0

InitBoth == \E first, second \in SeqsUpTo(BothPool, MaxAnnots) : LoadedBoth(first, second)

NextBoth == QueryWhole \/ Return

SpecBoth == InitBoth /\ [][NextBoth]_vars

\* Queries and mutations of small collections.
MutatePool == [roi : {{<<0, 0>>}, {<<1, 0>>}}, cls : {"a", None}]

InitMutate == \E first \in SeqsUpTo(MutatePool, MaxAnnots) : Loaded(first)

NextMutate == QueryWhole \/ Mutate \/ Return

SpecMutate == InitMutate /\ [][NextMutate]_vars

\* Merges of three and more annotations.
MergeRois == {{<<0, 0>>}, {<<1, 0>>}, {<<3, 0>>}, {<<3, 1>>}, Bar}

\* Class a on every region, class b on the two that adjoin.
MergePool == [roi : MergeRois, cls : {"a"}] \cup [roi : {{<<0, 0>>}, {<<1, 0>>}}, cls : {"b"}]

InitMerge == \E first \in [1 .. MaxAnnots + 1 -> MergePool] : Loaded(first)

NextMerge ==
    \/ \E max_dist \in MaxDists : merge_near_annotations(1, max_dist)
    \/ merge_step
    \/ Return

SpecMerge == InitMerge /\ [][NextMerge]_vars


\* ------------------------------------------------------------------ claims
Returned(op) == pc = "returned" /\ call.op = op

\* The number of times each element occurs in a sequence.
BagOf(seq) == [x \in Range(seq) |-> Cardinality({i \in DOMAIN seq : seq[i] = x})]

\* A mask of the requested size whose every pixel is 0.
AllZero(mask, multilabel, size) ==
    /\ Len(mask) = IF multilabel THEN Len(path_classes) - 1 ELSE 1
    /\ \A k \in DOMAIN mask : mask[k] = Zeros(size[1], size[2])

\* C1: on an image with zero annotations get_tile_annot returns an empty list
\* without raising, on the first call and on every later call, and
\* get_tile_annot_mask returns an all-zero mask of the requested size.
C1_EmptyImageQuery ==
    /\ (Returned("get_tile_annot") /\ annotations[call.img_id] = <<>>)
          => ret = Ok(<<>>)
    /\ (Returned("get_tile_annot_mask") /\ annotations[call.img_id] = <<>>)
          => (ret.err = "none" /\ AllZero(ret.val, call.multilabel, call.size))

\* The index an image's current annotations build.
CurrentIndex(img_id) == BuildIndex(Classified(annotations[img_id]))

\* C2: after save_mask_annotations or merge_near_annotations returns for an
\* image, the image's entry of img_annot_dict is absent or is the index of the
\* image's current annotations.
C2_IndexFollowsMutation ==
    ((Returned("save_mask_annotations") \/ Returned("merge_near_annotations"))
        /\ ret.err = "none" /\ call.img_id \in DOMAIN img_annot_dict)
      => Ok(img_annot_dict[call.img_id]) = CurrentIndex(call.img_id)

\* C3: every fragment get_tile_annot returns is a simple polygon; an
\* intersection that is only a point or a line yields no fragment.
C3_FragmentsArePolygons ==
    (Returned("get_tile_annot") /\ ret.err = "none")
      => \A i \in DOMAIN ret.val : ret.val[i].geom.type = "Polygon"

HasUnclassified(img_id) ==
    \E i \in DOMAIN annotations[img_id] : annotations[img_id][i].cls = None

\* C4: an annotation with no class is left out of every index build and every
\* query: get_tile_annot never returns it, and update_img_annot_dict and
\* merge_near_annotations skip it instead of failing.
C4_UnclassifiedSkipped ==
    /\ (Returned("get_tile_annot") /\ ret.err = "none")
          => \A i \in DOMAIN ret.val : ret.val[i].cls # None
    /\ ((Returned("update_img_annot_dict") \/ Returned("merge_near_annotations"))
            /\ HasUnclassified(call.img_id))
          => ret.err = "none"

\* The local indices with a channel of their own in a multilabel mask.
ValidChannels == 1 .. Len(path_classes) - 1

OutOfRange(frag) ==
    frag.cls \notin DOMAIN inverse_class_dict
        \/ inverse_class_dict[frag.cls] \notin ValidChannels

\* C5: in multilabel mode get_tile_annot_mask raises and returns no mask when
\* a fragment's class maps to a local index outside 1 .. N-1.
C5_MultilabelRangeError ==
    (Returned("get_tile_annot_mask") /\ call.multilabel
        /\ \E i \in DOMAIN call.tile_intersections : OutOfRange(call.tile_intersections[i]))
      => ret.err # "none"

MergeReturned == Returned("merge_near_annotations") /\ ret.err = "none"

\* C6: after merge_near_annotations completes, no two remaining annotations of
\* one class have geometries whose max_dist-buffers intersect.
C6_NoNearPairRemains ==
    MergeReturned =>
        LET now == annotations[call.img_id]
        IN  \A i, j \in DOMAIN now :
                (i < j /\ now[i].cls = now[j].cls)
                    => ~BuffersIntersect(now[i].roi, now[j].roi, call.max_dist)

\* The call is the second of two merges in succession on one image with one
\* max_dist: the collection it started from is what the first one left.
SecondMerge ==
    /\ call.prev # NoMerge
    /\ call.prev.img_id = call.img_id
    /\ call.prev.max_dist = call.max_dist
    /\ call.prev.result = call.before

\* C7: a second merge in succession with the same max_dist leaves the
\* collection as the first merge left it.
C7_MergeIdempotent ==
    (MergeReturned /\ SecondMerge) => annotations[call.img_id] = call.before

\* A is within max_dist (in half cells) of B.
Within(A, B, max_dist) == 4 * Dist2(A, B) <= max_dist * max_dist

\* Positions i, j, k of the collection hold same-class annotations A, B, C
\* with A near B, B near C and A not near C.
Chain(items, i, j, k, max_dist) ==
    /\ i # j /\ j # k /\ i # k
    /\ items[i].cls = items[j].cls /\ items[j].cls = items[k].cls
    /\ Within(items[i].roi, items[j].roi, max_dist)
    /\ Within(items[j].roi, items[k].roi, max_dist)
    /\ ~Within(items[i].roi, items[k].roi, max_dist)

\* The positions merge_near_annotations put into some component.
MergedPositions == UNION {Range(ret.val.seeds[n]) : n \in DOMAIN ret.val.seeds}

\* C8: three same-class annotations A, B, C with A within max_dist of B, B
\* within max_dist of C and A not within max_dist of C end in one component
\* and one annotation replaces them, whatever their order in the collection.
C8_ChainMerged ==
    MergeReturned =>
        \A i, j, k \in DOMAIN call.before :
            Chain(call.before, i, j, k, call.max_dist)
                => /\ \E n \in DOMAIN ret.val.seeds : {i, j, k} \subseteq Range(ret.val.seeds[n])
                   /\ Len(annotations[call.img_id])
                        = Len(call.before) - Cardinality(MergedPositions) + Len(ret.val.seeds)
                   /\ \E m \in DOMAIN annotations[call.img_id] :
                        /\ annotations[call.img_id][m].cls = call.before[i].cls
                        /\ (call.before[i].roi \cup call.before[j].roi \cup call.before[k].roi)
                              \subseteq annotations[call.img_id][m].roi

C8_Witness ==
    /\ MergeReturned
    /\ Len(call.before) = 3
    /\ Chain(call.before, 3, 1, 2, call.max_dist)
    /\ Len(annotations[call.img_id]) = 1

\* C9: after merge_near_annotations completes, the members of every component
\* of two or more are deleted and one annotation of their class is added for
\* it; every other annotation is still there, unchanged and in place; a
\* component never holds two classes.
C9_ComponentsReplaced ==
    MergeReturned =>
        LET seeds == ret.val.seeds
            class(n) == call.before[seeds[n][1]].cls
        IN  /\ \A n \in DOMAIN seeds :
                  /\ Cardinality(Range(seeds[n])) >= 2
                  /\ Cardinality(Range(seeds[n])) = Len(seeds[n])
                  /\ \A m \in Range(seeds[n]) : call.before[m].cls = class(n)
                  /\ \A o \in DOMAIN seeds : o # n => Range(seeds[o]) \cap Range(seeds[n]) = {}
            /\ annotations[call.img_id]
                 = Remaining(call.before, MergedPositions)
                   \o [n \in DOMAIN seeds |->
                         [roi |-> UNION {call.before[m].roi : m \in Range(seeds[n])},
                          cls |-> class(n)]]

C9_Witness ==
    /\ MergeReturned
    /\ Len(ret.val.seeds) = 1
    /\ Len(call.before) = 3
    /\ Len(annotations[call.img_id]) = 2
    /\ annotations[call.img_id][1] = call.before[2]
    /\ annotations[call.img_id][1].cls # annotations[call.img_id][2].cls

\* The filter names exactly class c, by its id or by its local index.
SingleClassFilter(class_filter, c) ==
    /\ class_filter.given
    /\ \/ class_filter.names = {c} /\ class_filter.nums = {}
       \/ class_filter.names = {} /\ class_filter.nums = {inverse_class_dict[c]}

\* What the call that just returned gives without a filter.
Unfiltered ==
    LET tile == polygon_tile(call.location, call.size)
    IN  IF call.cached
        THEN LET index == img_annot_dict[call.img_id]
             IN  CachedTileAnnot(index, Ascending(TreeQuery(index.tree, Bounds(tile, 0))),
                                 tile, NoFilter, inverse_class_dict).val
        ELSE ScanTileAnnot(annotations[call.img_id], tile, NoFilter, inverse_class_dict).val

ClassesPresent(img_id) ==
    {annotations[img_id][i].cls : i \in DOMAIN annotations[img_id]} \ {None}

\* C10: for every class c present, get_tile_annot filtered by c alone, given
\* as id or as local index, returns exactly the fragments of the unfiltered
\* result whose class is c, whether the call builds the index or reuses it.
C10_FilterCorrect ==
    Returned("get_tile_annot") =>
        \A c \in ClassesPresent(call.img_id) :
            SingleClassFilter(call.class_filter, c)
                => /\ ret.err = "none"
                   /\ BagOf(ret.val) = BagOf(SelectSeq(Unfiltered, LAMBDA f : f.cls = c))

C10_Witness ==
    /\ Returned("get_tile_annot")
    /\ call.cached
    /\ SingleClassFilter(call.class_filter, "a")
    /\ call.class_filter.nums = {1}
    /\ ret.val # <<>>
    /\ Len(Unfiltered) > Len(ret.val)

\* The pixels painting fragment f alone leaves set: inside its exterior ring,
\* outside the fill of its holes.
Own(f) ==
    LET factor == Pow2(call.downsample_level)
    IN  FillPixels(f.geom.cells \cup Holes(f.geom.cells), call.location, factor,
                   call.size[1], call.size[2])
          \ FillPixels(Holes(f.geom.cells), call.location, factor, call.size[1], call.size[2])

SingleLabelReturned ==
    Returned("get_tile_annot_mask") /\ ~call.multilabel /\ ret.err = "none"

\* Fragment y lies fully inside fragment x, has another class and the smaller
\* exterior area.
NestedIn(y, x) ==
    /\ y.geom.cells \subseteq x.geom.cells
    /\ y.cls # x.cls
    /\ ExteriorArea(y.geom) < ExteriorArea(x.geom)

\* C11: in a single-label mask of two fragments, Y of one class nested in X of
\* another class with the smaller exterior area, the mask holds Y's local
\* index on Y's pixels and X's local index on the pixels of X outside Y, in
\* either order of the two fragments.
C11_NestedTieBreak ==
    (SingleLabelReturned /\ Len(call.tile_intersections) = 2) =>
        \A i, j \in {1, 2} :
            LET x == call.tile_intersections[i]
                y == call.tile_intersections[j]
            IN  (i # j /\ NestedIn(y, x)) =>
                    /\ \A p \in Own(y) : ret.val[1][p] = inverse_class_dict[y.cls]
                    /\ \A p \in Own(x) \ Own(y) : ret.val[1][p] = inverse_class_dict[x.cls]

MultilabelReturned ==
    Returned("get_tile_annot_mask") /\ call.multilabel /\ ret.err = "none"

\* Channel k (local class index k, numpy channel k - 1) as the fragments of
\* local class index k alone paint it.
ChannelOfClass(k) ==
    LET mine == SelectSeq(call.tile_intersections,
                          LAMBDA f : inverse_class_dict[f.cls] = k)
    IN  Paint([n \in 1 .. Len(path_classes) - 1 |-> Zeros(call.size[1], call.size[2])],
              mine, TRUE, inverse_class_dict, call.location,
              Pow2(call.downsample_level), call.size[1], call.size[2]).val[k]

\* C12: in a multilabel mask a fragment is painted only into the channel of
\* its own class: every channel is what the fragments of its class alone
\* paint, and two coinciding polygons of different non-background classes are
\* both 1 in their own channels on every pixel they share.
C12_ChannelsIndependent ==
    MultilabelReturned =>
        /\ \A k \in DOMAIN ret.val : ret.val[k] = ChannelOfClass(k)
        /\ Len(call.tile_intersections) = 2 =>
              LET f == call.tile_intersections[1]
                  g == call.tile_intersections[2]
              IN  (f.geom = g.geom /\ f.cls # g.cls /\ f.cls # "bg" /\ g.cls # "bg") =>
                      \A p \in Own(f) : /\ ret.val[inverse_class_dict[f.cls]][p] = 1
                                        /\ ret.val[inverse_class_dict[g.cls]][p] = 1

\* The tile rectangle of the get_tile_annot call that returned.
CallTile == polygon_tile(call.location, call.size)

\* C13: every fragment get_tile_annot returns lies within the tile rectangle:
\* its faces are cells of the tile, its lines and points lie in the closed
\* rectangle.
C13_FragmentsInTile ==
    (Returned("get_tile_annot") /\ ret.err = "none") =>
        \A i \in DOMAIN ret.val :
            /\ ret.val[i].geom.cells \subseteq CallTile
            /\ ret.val[i].geom.low \subseteq Closure(CallTile)

\* A cached call returned a fragment of an annotation that reaches beyond
\* the tile.
C13_Witness ==
    /\ Returned("get_tile_annot")
    /\ call.cached
    /\ ret.err = "none"
    /\ Len(annotations[call.img_id]) = 1
    /\ ~(annotations[call.img_id][1].roi \subseteq CallTile)
    /\ \E i \in DOMAIN ret.val : ret.val[i].geom.type = "Polygon"

\* already_merged and the member lists of the seeds that merged so far, while
\* the loop of merge_near_annotations runs and when it has returned.
MergeProgress ==
    IF pc = "merge"
    THEN [already_merged |-> merge_frame.already_merged, seeds |-> merge_frame.seeds]
    ELSE ret.val

NoRepeats(seq) == Cardinality(Range(seq)) = Len(seq)

\* C14: at every step of merge_near_annotations a position occurs at most
\* once in already_merged and in the member list of at most one seed, and a
\* seed's own position is never in already_merged nor a second time among
\* its members.
C14_AbsorbedOnce ==
    (pc = "merge" \/ MergeReturned) =>
        LET already_merged == MergeProgress.already_merged
            seeds          == MergeProgress.seeds
        IN  /\ NoRepeats(already_merged)
            /\ \A n \in DOMAIN seeds :
                  /\ NoRepeats(seeds[n])
                  /\ seeds[n][1] \notin Range(already_merged)
                  /\ Range(Tail(seeds[n])) \subseteq Range(already_merged)
                  /\ \A o \in DOMAIN seeds : o # n => Range(seeds[o]) \cap Range(seeds[n]) = {}

\* The first seed has absorbed both other annotations, one of them through
\* the tree query that also returned the seed.
C14_Witness ==
    /\ MergeReturned
    /\ Len(call.before) = 3
    /\ ret.val.seeds = <<<<1, 2, 3>>>>
    /\ ret.val.already_merged = <<2, 3>>
    /\ call.before[1].roi # call.before[2].roi

\* The partition of the positions of a collection that member lists induce:
\* one block per merged component, one per annotation left alone.
PartitionOf(n, seeds) ==
    LET merged == UNION {Range(seeds[k]) : k \in DOMAIN seeds}
    IN  {Range(seeds[k]) : k \in DOMAIN seeds} \cup {{i} : i \in (1 .. n) \ merged}

\* The partition merge_near_annotations makes of `items` when it enumerates
\* them in the order `perm`, in terms of the positions in `items`.
PartitionInOrder(items, perm, max_dist) ==
    LET listed == [k \in DOMAIN perm |-> items[perm[k]]]
        seeds  == MergeLoop(1, listed, BuildIndex(listed).val, <<>>, max_dist)
    IN  {{perm[m] : m \in block} : block \in PartitionOf(Len(items), seeds)}

\* C15: the partition of the annotations into merged components is the same
\* for every order in which the collection is enumerated.
C15_OrderIndependent ==
    MergeReturned =>
        LET n    == Len(call.before)
            here == PartitionOf(n, ret.val.seeds)
        IN  \A perm \in Orders(1 .. n) :
                PartitionInOrder(call.before, perm, call.max_dist) = here

\* A chain was merged from its end: in another order its middle is the seed.
C15_Witness ==
    /\ MergeReturned
    /\ Len(call.before) = 3
    /\ Chain(call.before, 1, 2, 3, call.max_dist)
    /\ PartitionOf(3, ret.val.seeds) = {{1, 2, 3}}

\* C16: in a single-label mask of fragments of non-background classes, a
\* pixel in the filled region of some fragment (inside its exterior, outside
\* its own holes) is not left 0 by the hole of another fragment.
C16_HolesSpareOthers ==
    (SingleLabelReturned
        /\ \A i \in DOMAIN call.tile_intersections :
              inverse_class_dict[call.tile_intersections[i].cls] # 0) =>
        \A p \in DOMAIN ret.val[1] :
            (\E i \in DOMAIN call.tile_intersections : p \in Own(call.tile_intersections[i]))
                => ret.val[1][p] # 0

\* The mask of the call that returned, had the tile query listed its
\* fragments in the order `perm`.
MaskInOrder(perm) ==
    Rasterize([k \in DOMAIN perm |-> call.tile_intersections[perm[k]]], FALSE, path_classes,
              inverse_class_dict, call.location, Pow2(call.downsample_level), call.size)

\* C17: the single-label mask depends on the set of fragments only: whatever
\* order the tile query returns them in, the mask is the same.
C17_MaskIgnoresOrder ==
    SingleLabelReturned =>
        \A perm \in Orders(DOMAIN call.tile_intersections) : MaskInOrder(perm) = ret

\* What the linear scan of the else branch gives for the call that returned.
ScanOfCall ==
    ScanTileAnnot(annotations[call.img_id], CallTile, call.class_filter, inverse_class_dict)

\* C18: with the annotations unchanged, a get_tile_annot call that reuses the
\* index returns the same multiset of (class, fragment) pairs as the linear
\* scan of a call that builds it.
C18_CacheEquivalent ==
    (Returned("get_tile_annot") /\ call.cached) =>
        /\ ret.err = ScanOfCall.err
        /\ BagOf(ret.val) = BagOf(ScanOfCall.val)

\* A filtered call on the index returned a fragment of one of two
\* annotations, one of which only touches the tile.
C18_Witness ==
    /\ Returned("get_tile_annot")
    /\ call.cached
    /\ ~NotFilter(call.class_filter)
    /\ Len(ret.val) = 1
    /\ Len(annotations[call.img_id]) = 2
    /\ \E i \in DOMAIN ScanTileAnnot(annotations[call.img_id], CallTile, NoFilter,
                                      inverse_class_dict).val :
          ScanTileAnnot(annotations[call.img_id], CallTile, NoFilter,
                        inverse_class_dict).val[i].geom.type = "LineString"

\* The step is a whole call of get_tile_annot or get_tile_annot_mask.
QueryStep ==
    /\ pc = "idle"
    /\ pc' = "returned"
    /\ call'.op \in {"get_tile_annot", "get_tile_annot_mask"}

\* C19: get_tile_annot and get_tile_annot_mask leave the annotations and the
\* class dictionaries as they are; they leave img_annot_dict as it is when the
\* image has an entry, and otherwise add at most the entry of the queried
\* image and keep the entries of the other images.
C19_QueriesReadOnly ==
    [][QueryStep =>
         /\ annotations' = annotations
         /\ path_classes' = path_classes
         /\ class_dict' = class_dict
         /\ inverse_class_dict' = inverse_class_dict
         /\ call'.img_id \in DOMAIN img_annot_dict => img_annot_dict' = img_annot_dict
         /\ call'.img_id \notin DOMAIN img_annot_dict =>
               /\ DOMAIN img_annot_dict' \subseteq DOMAIN img_annot_dict \cup {call'.img_id}
               /\ \A j \in DOMAIN img_annot_dict :
                     j \in DOMAIN img_annot_dict' /\ img_annot_dict'[j] = img_annot_dict[j]
      ]_vars

\* A query built the entry of its image while the other image had one.
C19_Witness ==
    /\ Returned("get_tile_annot")
    /\ ~call.cached
    /\ ret.err = "none"
    /\ DOMAIN img_annot_dict = Images

=============================================================================
